---- MODULE Spec2Model ----
(***************************************************************************)
(* Model of the todo-app HTTP service (src/main.go): five fiber handlers   *)
(* over one PostgreSQL table "tasks".  Every request runs on its own       *)
(* goroutine and issues exactly one SQL statement through the pool.        *)
(*                                                                         *)
(* A writing statement (INSERT, UPDATE) is modelled in two steps, because  *)
(* now() is the start time of the statement's transaction while the row    *)
(* change takes effect when the statement executes: the handler action     *)
(* parses, validates and starts the statement (the clock is read), the     *)
(* ...Db action executes it atomically and sends the response.  The        *)
(* reading statements and DELETE carry no timestamp and are one step.      *)
(***************************************************************************)
EXTENDS Integers, Sequences, FiniteSets, TLC

VARIABLES
    tasks,      \* the rows of table "tasks"
    seq,        \* last value handed out by the id sequence of the table
    clock,      \* database server clock
    inflight,   \* INSERT/UPDATE statements started and not yet executed
    resp,       \* the response most recently sent by a handler
    submitted,  \* history: id -> payload of its create, while not updated or deleted
    deleted,    \* history: ids whose row a DELETE removed
    creates,    \* history: number of rows inserted
    deletes     \* history: number of rows removed

vars == <<tasks, seq, clock, inflight, resp, submitted, deleted, creates, deletes>>

-----------------------------------------------------------------------------
(* Bounds of the model *)

MaxClock == 2       \* number of INSERT/UPDATE statements started in a run
MaxId == 2          \* ids requested in /tasks/:id are 1..MaxId

(* Program constants *)

TitleMin == 3
TitleMax == 100
DescriptionMax == 500
MaxConns == 20

StatusBadRequest == 400
StatusNotFound == 404
StatusInternalServerError == 500
StatusOK == 200
StatusCreated == 201
StatusNoContent == 204

-----------------------------------------------------------------------------
(* Strings *)

RECURSIVE Repeat(_, _)
Repeat(s, n) ==
    IF n = 0 THEN ""
    ELSE IF n % 2 = 0 THEN LET h == Repeat(s, n \div 2) IN h \o h
    ELSE s \o Repeat(s, n - 1)

T100 == Repeat("t", TitleMax)
T101 == Repeat("t", TitleMax + 1)
D500 == Repeat("d", DescriptionMax)
D501 == Repeat("d", DescriptionMax + 1)

(* type Task struct; a time.Time is an integer, 0 the zero time *)
Task(id, title, description, status, created_at, updated_at) ==
    [id |-> id, title |-> title, description |-> description,
     status |-> status, created_at |-> created_at, updated_at |-> updated_at]

(* A request body: parses is FALSE when c.BodyParser fails; task is the    *)
(* struct BodyParser fills, absent JSON keys left at their zero value.     *)
Body(parses, task) == [parses |-> parses, task |-> task]

ValidBodies ==
    { Body(TRUE, Task(0, "abc", "", "todo", 0, 0)),
      Body(TRUE, Task(7, T100, D500, "done", 9, 9)) }

InvalidBodies ==
    { Body(TRUE, Task(0, "", "", "todo", 0, 0)),
      Body(TRUE, Task(0, "ab", "", "todo", 0, 0)),
      Body(TRUE, Task(0, T101, "", "todo", 0, 0)),
      Body(TRUE, Task(0, "abc", D501, "todo", 0, 0)),
      Body(TRUE, Task(0, "abc", "", "archived", 0, 0)),
      Body(TRUE, Task(0, "abc", "", "", 0, 0)) }

MalformedBodies == { Body(FALSE, Task(0, "", "", "", 0, 0)) }

Bodies == ValidBodies \cup InvalidBodies \cup MalformedBodies

ParamIds == 1..MaxId

-----------------------------------------------------------------------------
(* validate.Struct(task) with the tags of type Task *)

Required(s) == s # ""
Min(s, n) == Len(s) >= n
Max(s, n) == Len(s) <= n
OneOf(s, set) == s \in set

ValidateStructMin2(t) ==
    /\ Required(t.title) /\ Min(t.title, TitleMin - 1) /\ Max(t.title, TitleMax)
    /\ Max(t.description, DescriptionMax)
    /\ OneOf(t.status, {"todo", "in_progress", "done"})

ValidateStruct(t) ==
    /\ Required(t.title) /\ Min(t.title, TitleMin) /\ Max(t.title, TitleMax)
    /\ Max(t.description, DescriptionMax)
    /\ OneOf(t.status, {"todo", "in_progress", "done"})

-----------------------------------------------------------------------------
(* The SQL statements *)

(* Column defaults of table tasks: id from the table's sequence,           *)
(* created_at and updated_at DEFAULT now().                                *)
DefaultId(s) == s + 1
DefaultTimestamp(now) == now

InsertRowSwapped(t, s, now) ==
    Task(DefaultId(s), t.description, t.title, t.status,
         DefaultTimestamp(now), DefaultTimestamp(now))

(* INSERT INTO tasks (title, description, status) VALUES ($1, $2, $3) *)
InsertRow(t, s, now) ==
    Task(DefaultId(s), t.title, t.description, t.status,
         DefaultTimestamp(now), DefaultTimestamp(now))

(* ... FROM tasks WHERE id = $1 *)
SelectByID(rows, id) == { r \in rows : r.id = id }

UpdatedRow(r, t, now) ==
    [r EXCEPT !.title = t.title, !.description = t.description,
              !.status = t.status, !.updated_at = now]

UpdateRowsUpsert(rows, id, t, now) ==
    IF SelectByID(rows, id) = {}
    THEN rows \cup { Task(id, t.title, t.description, t.status, now, now) }
    ELSE { IF r.id = id THEN UpdatedRow(r, t, now) ELSE r : r \in rows }

(* UPDATE tasks SET title=$1, description=$2, status=$3, updated_at=now() WHERE id=$4 *)
UpdateRows(rows, id, t, now) ==
    { IF r.id = id THEN UpdatedRow(r, t, now) ELSE r : r \in rows }

DeleteRowsNone(rows, id) == rows

DeleteRowsAll(rows, id) == {}

(* DELETE FROM tasks WHERE id=$1 *)
DeleteRows(rows, id) == { r \in rows : r.id # id }

(* The rows of a result set as the slice the handler appends them to.  A   *)
(* SELECT without ORDER BY streams the rows in an order the database       *)
(* chooses; the slice is written here by ascending id.                     *)
RECURSIVE ById(_)
ById(rows) ==
    IF rows = {} THEN <<>>
    ELSE LET first == CHOOSE r \in rows : \A q \in rows : r.id <= q.id
         IN <<first>> \o ById(rows \ {first})

-----------------------------------------------------------------------------
(* Responses *)

Response(kind, param, code, err, n, out) ==
    [kind |-> kind,     \* the handler
     param |-> param,   \* c.Params("id"), 0 when the route has none
     code |-> code,     \* HTTP status
     err |-> err,       \* what the database call raised: "nil", "ErrNoRows", "persistence"
     n |-> n,           \* rows the statement matched
     out |-> out]       \* tasks in the JSON body, in order

Init ==
    /\ tasks = {}
    /\ seq = 0
    /\ clock = 0
    /\ inflight = {}
    /\ resp = Response("none", 0, 0, "nil", 0, <<>>)
    /\ submitted = [i \in 1..MaxClock |-> {}]
    /\ deleted = {}
    /\ creates = 0
    /\ deletes = 0

Statement(kind, id, task, now) == [kind |-> kind, id |-> id, task |-> task, now |-> now]

(* A statement starts when the pool has a free connection *)
CanStart == clock < MaxClock /\ Cardinality(inflight) < MaxConns

(* createTask up to db.QueryRow: parse, validate, start the INSERT *)
createTask(b) ==
    /\ IF ~b.parses \/ ~ValidateStruct(b.task)
       THEN /\ resp' = Response("createTask", 0, StatusBadRequest, "nil", 0, <<>>)
            /\ UNCHANGED <<clock, inflight>>
       ELSE /\ CanStart
            /\ clock' = clock + 1
            /\ inflight' = inflight \cup {Statement("createTask", 0, b.task, clock + 1)}
            /\ UNCHANGED resp
    /\ UNCHANGED <<tasks, seq, submitted, deleted, creates, deletes>>

(* createTask from the execution of the INSERT to the response; a          *)
(* statement that fails (ok FALSE) has no effect on the table              *)
createTaskDb(st, ok) ==
    /\ st \in inflight /\ st.kind = "createTask"
    /\ inflight' = inflight \ {st}
    /\ IF ~ok
       THEN /\ resp' = Response("createTask", 0, StatusInternalServerError, "persistence", 0, <<>>)
            /\ UNCHANGED <<tasks, seq, submitted, creates>>
       ELSE LET row == InsertRow(st.task, seq, st.now) IN
            /\ tasks' = tasks \cup {row}
            /\ seq' = row.id
            /\ resp' = Response("createTask", 0, StatusCreated, "nil", 1,
                                << [st.task EXCEPT !.id = row.id,
                                                   !.created_at = row.created_at,
                                                   !.updated_at = row.updated_at] >>)
            /\ submitted' = [submitted EXCEPT ![row.id] = {st.task}]
            /\ creates' = creates + 1
    /\ UNCHANGED <<clock, deleted, deletes>>

(* getTasks: db.Query, the rows.Next loop, c.JSON(tasks).  A failure of     *)
(* the query is returned by db.Query (queryOk FALSE); a failure while the  *)
(* rows stream ends the loop after the rows already read (any subset, for  *)
(* the order is the database's) and is left in rows.Err(), which the       *)
(* handler does not read.  rows.Scan cannot fail on a row written by the   *)
(* handlers (no column is NULL), so the loop's continue is not taken.      *)
getTasks(queryOk, read) ==
    /\ read \subseteq tasks
    /\ IF ~queryOk
       THEN resp' = Response("getTasks", 0, StatusInternalServerError, "persistence", 0, <<>>)
       ELSE resp' = Response("getTasks", 0, StatusOK,
                             IF read # tasks THEN "persistence" ELSE "nil",
                             Cardinality(tasks), ById(read))
    /\ UNCHANGED <<tasks, seq, clock, inflight, submitted, deleted, creates, deletes>>

(* getTaskByID: any error of QueryRow(...).Scan is answered with 404 *)
getTaskByID(id, ok) ==
    LET found == SelectByID(tasks, id)
        err == IF ~ok THEN "persistence" ELSE IF found = {} THEN "ErrNoRows" ELSE "nil"
    IN
    /\ IF err # "nil"
       THEN resp' = Response("getTaskByID", id, StatusNotFound, err, 0, <<>>)
       ELSE resp' = Response("getTaskByID", id, StatusOK, "nil", Cardinality(found),
                             << CHOOSE r \in found : TRUE >>)
    /\ UNCHANGED <<tasks, seq, clock, inflight, submitted, deleted, creates, deletes>>

(* updateTask up to db.QueryRow: parse, validate, start the UPDATE *)
updateTask(id, b) ==
    /\ IF ~b.parses \/ ~ValidateStruct(b.task)
       THEN /\ resp' = Response("updateTask", id, StatusBadRequest, "nil", 0, <<>>)
            /\ UNCHANGED <<clock, inflight>>
       ELSE /\ CanStart
            /\ clock' = clock + 1
            /\ inflight' = inflight \cup {Statement("updateTask", id, b.task, clock + 1)}
            /\ UNCHANGED resp
    /\ UNCHANGED <<tasks, seq, submitted, deleted, creates, deletes>>

(* updateTask from the execution of the UPDATE to the response: only       *)
(* task.UpdatedAt is scanned, the rest of the struct is the parsed body    *)
updateTaskDb(st, ok) ==
    LET found == SelectByID(tasks, st.id)
        err == IF ~ok THEN "persistence" ELSE IF found = {} THEN "ErrNoRows" ELSE "nil"
    IN
    /\ st \in inflight /\ st.kind = "updateTask"
    /\ inflight' = inflight \ {st}
    /\ IF ~ok
       THEN UNCHANGED <<tasks, submitted>>
       ELSE /\ tasks' = UpdateRows(tasks, st.id, st.task, st.now)
            /\ submitted' = IF found # {} /\ st.id \in DOMAIN submitted
                            THEN [submitted EXCEPT ![st.id] = {}]
                            ELSE submitted
    /\ IF err # "nil"
       THEN resp' = Response("updateTask", st.id, StatusInternalServerError, err, 0, <<>>)
       ELSE resp' = Response("updateTask", st.id, StatusOK, "nil", Cardinality(found),
                             << [st.task EXCEPT !.updated_at = st.now] >>)
    /\ UNCHANGED <<seq, clock, deleted, creates, deletes>>

(* deleteTask: db.Exec, the command tag is discarded *)
deleteTask(id, ok) ==
    LET found == SelectByID(tasks, id) IN
    /\ IF ~ok
       THEN /\ resp' = Response("deleteTask", id, StatusInternalServerError, "persistence", 0, <<>>)
            /\ UNCHANGED <<tasks, submitted, deleted, deletes>>
       ELSE /\ tasks' = DeleteRows(tasks, id)
            /\ resp' = Response("deleteTask", id, StatusNoContent, "nil", Cardinality(found), <<>>)
            /\ submitted' = IF found # {} /\ id \in DOMAIN submitted
                            THEN [submitted EXCEPT ![id] = {}]
                            ELSE submitted
            /\ deleted' = IF found # {} THEN deleted \cup {id} ELSE deleted
            /\ deletes' = deletes + Cardinality(tasks) - Cardinality(tasks')
    /\ UNCHANGED <<seq, clock, inflight, creates>>

Next ==
    \/ \E b \in Bodies : createTask(b)
    \/ \E st \in inflight, ok \in BOOLEAN : createTaskDb(st, ok)
    \/ \E queryOk \in BOOLEAN :
          \E read \in (IF queryOk THEN SUBSET tasks ELSE {{}}) : getTasks(queryOk, read)
    \/ \E id \in ParamIds, ok \in BOOLEAN : getTaskByID(id, ok)
    \/ \E id \in ParamIds, b \in Bodies : updateTask(id, b)
    \/ \E st \in inflight, ok \in BOOLEAN : updateTaskDb(st, ok)
    \/ \E id \in ParamIds, ok \in BOOLEAN : deleteTask(id, ok)

Spec == Init /\ [][Next]_vars

-----------------------------------------------------------------------------
(* Properties *)

Statuses == {"todo", "in_progress", "done"}

Submitted(id) == IF id \in DOMAIN submitted THEN submitted[id] ELSE {}

(* The field constraints of the data model, as the specification states them *)
ViolatesConstraint(t) ==
    \/ Len(t.title) < 3 \/ Len(t.title) > 100
    \/ Len(t.description) > 500
    \/ t.status \notin Statuses

(* C1: a GET /tasks/{id} that the database serves, for an id returned by a  *)
(* successful POST and neither updated nor deleted since, answers 200 with   *)
(* the submitted title, description and status, an id > 0 (the requested     *)
(* one) and created_at = updated_at.                                         *)
C1_CreateThenGet ==
    (resp.kind = "getTaskByID" /\ resp.err # "persistence" /\ Submitted(resp.param) # {}) =>
        /\ resp.code = StatusOK
        /\ Len(resp.out) = 1
        /\ \A b \in Submitted(resp.param) :
              /\ resp.out[1].title = b.title
              /\ resp.out[1].description = b.description
              /\ resp.out[1].status = b.status
        /\ resp.out[1].id > 0
        /\ resp.out[1].id = resp.param
        /\ resp.out[1].created_at = resp.out[1].updated_at

C1_Witness ==
    /\ resp.kind = "getTaskByID" /\ resp.code = StatusOK
    /\ Submitted(resp.param) # {}
    /\ resp.out[1].title = T100 /\ resp.out[1].description = D500
    /\ resp.out[1].status = "done"

RejectedBodies == { b \in Bodies : b.parses /\ ViolatesConstraint(b.task) }
AcceptedBodies == { b \in Bodies : b.parses /\ ~ViolatesConstraint(b.task) }

(* C2: a body that parses and violates a field constraint is answered 400   *)
(* by POST /tasks and by PUT /tasks/{id}, with the table unchanged and no    *)
(* statement started; a body that parses and violates none is accepted by    *)
(* both (its statement starts), so both handlers accept the same bodies.     *)
C2_InvalidRejected ==
    [][/\ \/ resp'.code = 400 /\ tasks' = tasks /\ inflight' = inflight
          \/ \A b \in RejectedBodies :
                ~createTask(b) /\ \A id \in ParamIds : ~updateTask(id, b)
       /\ \/ inflight' # inflight /\ resp' = resp
          \/ \A b \in AcceptedBodies :
                ~createTask(b) /\ \A id \in ParamIds : ~updateTask(id, b)
      ]_vars

C2_Witness ==
    /\ resp.kind = "updateTask" /\ resp.code = 400
    /\ tasks # {} /\ resp.param \in { r.id : r \in tasks }

(* C3: every PUT answered 200 replaces title, description and status of the *)
(* row by the payload's, sets updated_at strictly greater than before, and   *)
(* leaves the row's id and created_at and every other row unchanged.         *)
C3_UpdateFrame ==
    [][\A st \in inflight :
          (st.kind = "updateTask" /\ updateTaskDb(st, TRUE) /\ resp'.code = 200) =>
             \E old \in tasks, new \in tasks' :
                /\ old.id = st.id /\ new.id = old.id
                /\ new.title = st.task.title
                /\ new.description = st.task.description
                /\ new.status = st.task.status
                /\ new.created_at = old.created_at
                /\ new.updated_at > old.updated_at
                /\ tasks' \ {new} = tasks \ {old}
      ]_vars

(* C4: the body of a PUT answered 200 is the stored row after the update *)
C4_UpdateReturnsRow ==
    (resp.kind = "updateTask" /\ resp.code = 200) =>
        \E r \in tasks : r.id = resp.param /\ resp.out = <<r>>

(* C5: a persistence error is answered 500, and 404 is answered only when   *)
(* no row matches the requested id.                                          *)
C5_PersistenceError500 ==
    /\ resp.err = "persistence" => resp.code = 500
    /\ resp.code = 404 => resp.err = "ErrNoRows"

(* C6: GET /tasks returns exactly the stored tasks, each once, and their    *)
(* number is the number of creates minus the number of deletes.              *)
C6_ListAll ==
    (resp.kind = "getTasks" /\ resp.code = 200) =>
        /\ { resp.out[i] : i \in 1..Len(resp.out) } = tasks
        /\ Len(resp.out) = Cardinality(tasks)
        /\ Len(resp.out) = creates - deletes

(* C7: once a DELETE removed the row of an id, no row has that id again     *)
(* (the sequence is past it) and GET /tasks/{id} answers 404.                *)
C7_DeletedStaysGone ==
    /\ \A id \in deleted : SelectByID(tasks, id) = {} /\ id <= seq
    /\ (resp.kind = "getTaskByID" /\ resp.param \in deleted) => resp.code = 404

C7_Witness ==
    /\ resp.kind = "getTaskByID" /\ resp.param \in deleted /\ resp.code = 404
    /\ resp.err = "ErrNoRows"
    /\ \E r \in tasks : r.id > resp.param

(* C8: a DELETE that the database serves answers 204 and leaves no row of   *)
(* the id; when no row matched, the table is unchanged.                      *)
C8_DeleteIdempotent ==
    [][\A id \in ParamIds : deleteTask(id, TRUE) =>
          /\ resp'.code = 204
          /\ SelectByID(tasks', id) = {}
          /\ SelectByID(tasks, id) = {} => tasks' = tasks
          /\ \A r \in tasks : r.id # id => r \in tasks'
      ]_vars

C8_Witness ==
    /\ resp.kind = "deleteTask" /\ resp.code = 204 /\ resp.n = 0
    /\ resp.param \in deleted
    /\ tasks # {}

(* C9: every stored task has a valid status, created_at <= updated_at, and  *)
(* an id unique in the table that the sequence assigned.                     *)
C9_RowInvariant ==
    \A r \in tasks :
        /\ r.status \in Statuses
        /\ r.created_at <= r.updated_at
        /\ r.id \in 1..seq
        /\ \A q \in tasks : q.id = r.id => q = r

(* C10: a PUT whose UPDATE matches no row is answered with an error status, *)
(* not 200, and the table is unchanged.                                      *)
C10_UpdateMissingFails ==
    [][\A st \in inflight, ok \in BOOLEAN :
          (st.kind = "updateTask" /\ SelectByID(tasks, st.id) = {} /\ updateTaskDb(st, ok)) =>
             /\ resp'.code # 200
             /\ resp'.code >= 400
             /\ tasks' = tasks
      ]_vars

C10_Witness ==
    /\ resp.kind = "updateTask" /\ resp.err = "ErrNoRows" /\ resp.code = 500
    /\ tasks # {}

====
